---- MODULE Spec2Model ----
(***************************************************************************)
(* Model of the command layer of at-cryptoauth-rs (src/src/command.rs):    *)
(* the typed response values (Word, Block, Serial, Signature, Digest) with *)
(* their validating conversions, and the command builders (GenDig, Info,   *)
(* Lock, Sha, Aes, Random, Read, Write) driving a PacketBuilder over a     *)
(* caller supplied scratch buffer.                                         *)
(*                                                                         *)
(* command.rs uses three sibling modules: error (ErrorKind), memory (Size,  *)
(* Slot, Zone) and packet (Packet, PacketBuilder).  Their definitions      *)
(* below follow the written specification of the crate and the way         *)
(* command.rs and its test use them.                                       *)
(***************************************************************************)
EXTENDS Integers, Sequences, FiniteSets, TLC

VARIABLES
    kind,      \* which command struct wraps the PacketBuilder
    builder,   \* the PacketBuilder's fields (self.0)
    buffer,    \* the caller's scratch buffer the builder borrows
    budget,    \* calls still explored on this command struct
    fill,      \* the byte the scratch buffer held everywhere at construction
    last,      \* the last command-builder call: arguments and Result
    resp       \* the last response conversion: input slice and outcome

vars == <<kind, builder, buffer, budget, fill, last, resp>>

---------------------------------------------------------------------------
(* Bounds of the model.                                                    *)

\* calls explored on one command struct
MaxCalls == 2
\* longest payload handed to Sha::update and longest response slice
MaxDataLen == 65
\* longest plaintext / ciphertext handed to Aes
MaxAesLen == 17
\* longest data handed to Write::write
MaxWriteLen == 33
\* largest block argument
MaxBlockArg == 2

\* contents of input slices: byte i of the slice with seed s
Seeds == {1, 2}
\* offsets handed to Read::read / Write::write
ArgOffsets == {0, 7, 8}
\* initial contents of the scratch buffer (0x00 as in tests::sha, or 0xA5)
Fills == {0, 165}

Data(len, seed) == [i \in 1..len |-> ((i * 37 + seed * 101) % 255) + 1]

---------------------------------------------------------------------------
(* Integer helpers: Rust's bit operators on unsigned integers.             *)

RECURSIVE BitOr(_, _)
BitOr(a, b) ==
    IF a = 0 THEN b
    ELSE IF b = 0 THEN a
    ELSE (IF a % 2 = 1 \/ b % 2 = 1 THEN 1 ELSE 0) + 2 * BitOr(a \div 2, b \div 2)

Shl8(a, n) == (a * (2 ^ n)) % 256

ToggleBit(x, k) == IF (x \div (2 ^ k)) % 2 = 1 THEN x - 2 ^ k ELSE x + 2 ^ k

---------------------------------------------------------------------------
(* error.rs: the error kinds command.rs constructs.                        *)

BadParam == "BadParam"
InvalidSize == "InvalidSize"
\* signature::Error::new(), the opaque error of the signature crate
SignatureError == "signature::Error"
ErrorKind == {BadParam, InvalidSize}

---------------------------------------------------------------------------
(* memory.rs: Size, Slot, Zone.                                            *)

Sizes == {"Word", "Block"}
Zones == {"Config", "Otp", "Data"}
MaxSlot == 15
Slots == 0..MaxSlot

\* Size::Word as usize (command.rs line 16) and Size::Word.len()
SizeWord == 4
\* Size::Block.len(): the 32-byte block
SizeBlock == 32
Size_len(size) == IF size = "Word" THEN SizeWord ELSE SizeBlock

\* slots 0..7 hold private / symmetric key material
LastPrivateKeySlot == 7
is_private_key(slot) == slot <= LastPrivateKeySlot

ZoneCode(zone) == CASE zone = "Config" -> 0 [] zone = "Otp" -> 1 [] zone = "Data" -> 2

\* mode byte: low bits select the zone, bit 7 selects the 32-byte granularity
Zone_encode(zone, size) == BitOr(ZoneCode(zone), IF size = "Block" THEN 128 ELSE 0)

\* blocks a zone holds when addressed without a slot
ZoneBlocks(zone) == CASE zone = "Config" -> 4 [] zone = "Otp" -> 2 [] zone = "Data" -> 2
\* 4-byte words in a block
WordsPerBlock == 8

\* Result<u16, Error> of zone.get_addr(block, offset)
Zone_get_addr(zone, block, offset) ==
    IF block >= ZoneBlocks(zone) \/ offset >= WordsPerBlock
    THEN [ok |-> FALSE, err |-> BadParam, addr |-> 0]
    ELSE [ok |-> TRUE, err |-> "",
          addr |-> IF zone = "Data" THEN block * 256 + offset ELSE block * 8 + offset]

\* blocks of a Data-zone slot: 36 bytes, 416 bytes (slot 8), 72 bytes
SlotBlocks(slot) == IF slot <= 7 THEN 2 ELSE IF slot = 8 THEN 13 ELSE 3

\* Result<u16, Error> of Zone::Data.get_slot_addr(slot, block)
Zone_get_slot_addr(slot, block) ==
    IF block >= SlotBlocks(slot)
    THEN [ok |-> FALSE, err |-> BadParam, addr |-> 0]
    ELSE [ok |-> TRUE, err |-> "", addr |-> slot * 8 + block * 256]

---------------------------------------------------------------------------
(* Response value types and their conversions (command.rs lines 12-152).   *)

\* lengths of the value arrays
WordValueLen == 4
BlockValueLen == 16
SerialValueLen == 9
SignatureValueLen == 64
DigestValueLen == 32

NoValue == <<>>
RespOk(t, slice, v) ==
    [err |-> "", ty |-> t, input |-> slice, outcome |-> "ok", value |-> v]
RespErr(t, slice, e) ==
    [err |-> e, ty |-> t, input |-> slice, outcome |-> "err", value |-> NoValue]
RespPanic(t, slice) ==
    [err |-> "", ty |-> t, input |-> slice, outcome |-> "panic", value |-> NoValue]

\* <[u8]>::copy_from_slice: panics unless both slices have the same length
copy_from_slice(t, slice, dstLen, src) ==
    IF Len(src) = dstLen THEN RespOk(t, slice, src) ELSE RespPanic(t, slice)

Word_try_from(buf) ==
    IF Len(buf) # Size_len("Word")
    THEN RespErr("Word", buf, BadParam)
    ELSE copy_from_slice("Word", buf, WordValueLen, buf)

Block_try_from(buf) ==
    IF Len(buf) # Size_len("Block")
    THEN RespErr("Block", buf, BadParam)
    ELSE copy_from_slice("Block", buf, BlockValueLen, buf)

Serial_try_from_shifted(buf) ==
    IF Len(buf) # Size_len("Block")
    THEN RespErr("Serial", buf, BadParam)
    ELSE RespOk("Serial", buf,
                [i \in 1..SerialValueLen |-> IF i <= 4 THEN buf[i] ELSE buf[i + 3]])

Serial_try_from(buf) ==
    IF Len(buf) # Size_len("Block")
    THEN RespErr("Serial", buf, BadParam)
    ELSE RespOk("Serial", buf,
                [i \in 1..SerialValueLen |-> IF i <= 4 THEN buf[i] ELSE buf[i + 4]])

Signature_from_bytes(bytes) ==
    IF Len(bytes) # 64
    THEN RespErr("Signature", bytes, SignatureError)
    ELSE copy_from_slice("Signature", bytes, SignatureValueLen, bytes)

Digest_try_from(buf) ==
    IF Len(buf) # 32
    THEN RespErr("Digest", buf, BadParam)
    ELSE copy_from_slice("Digest", buf, DigestValueLen, buf)

\* AsRef<[u8]>: the byte view of a constructed value
as_ref(r) == r.value

NoResp == [err |-> "", ty |-> "", input |-> <<>>, outcome |-> "none", value |-> NoValue]

---------------------------------------------------------------------------
(* packet.rs: Packet and PacketBuilder.                                    *)

\* scratch buffer length of tests::sha
BufSize == 255
\* Option::None of a builder field
NoVal == -1
\* a frame without payload: length byte, opcode, mode, param2, checksum
CMD_SIZE_MIN == 7
\* index of the first payload byte in the scratch buffer
PDU_OFFSET == 6

Unwrap(v) == IF v = NoVal THEN 0 ELSE v

\* the CRC-16 (polynomial 0x8005) register after one more data bit
crc_bit_step(crc, data_bit) ==
    LET crc_bit == crc \div 32768
        shifted == (crc * 2) % 65536
    IN IF data_bit # crc_bit
       THEN ToggleBit(ToggleBit(ToggleBit(shifted, 0), 2), 15)
       ELSE shifted

\* ... after the bits n..7 of a byte, least significant first
RECURSIVE crc_bits(_, _, _)
crc_bits(crc, byte, n) ==
    IF n = 8 THEN crc
    ELSE LET c == crc_bit_step(crc, (byte \div (2 ^ n)) % 2)
         IN IF c >= 0 THEN crc_bits(c, byte, n + 1) ELSE c

\* crc16 of buf[from..to], continuing from the register value crc
RECURSIVE crc16(_, _, _, _)
crc16(crc, buf, from, to) ==
    IF from > to THEN crc
    ELSE LET c == crc_bits(crc, buf[from], 0)
         IN IF c >= 0 THEN crc16(c, buf, from + 1, to) ELSE c

\* PacketBuilder::new(buffer): nothing set yet
PacketBuilder_new == [opcode |-> NoVal, mode |-> NoVal, param2 |-> NoVal, pdu_length |-> NoVal]

\* the setters: each returns the updated builder state
opcode(st, op) == [st EXCEPT !.b.opcode = op]
mode(st, m) == [st EXCEPT !.b.mode = m]
param2(st, p) == [st EXCEPT !.b.param2 = p]
pdu_length(st, n) == [st EXCEPT !.b.pdu_length = n]
pdu_data(st, data) ==
    [b |-> [st.b EXCEPT !.pdu_length = Len(data)],
     buf |-> [i \in DOMAIN st.buf |->
                IF i >= PDU_OFFSET /\ i < PDU_OFFSET + Len(data)
                THEN data[i - PDU_OFFSET + 1]
                ELSE st.buf[i]]]

NoPacket == [start |-> 0, end |-> 0]

\* build: finalizes length and checksum in the scratch buffer, yields the Packet;
\* the builder's fields stay as they are
build(st) ==
    LET len == Unwrap(st.b.pdu_length) + CMD_SIZE_MIN
        p2 == Unwrap(st.b.param2)
        hdr == [st.buf EXCEPT ![1] = len,
                              ![2] = Unwrap(st.b.opcode),
                              ![3] = Unwrap(st.b.mode),
                              ![4] = p2 % 256,
                              ![5] = p2 \div 256]
        crc == crc16(0, hdr, 1, len - 2)
    IN [st |-> [b |-> st.b,
                buf |-> [hdr EXCEPT ![len - 1] = crc % 256, ![len] = crc \div 256]],
        packet |-> [start |-> 0, end |-> len + 1]]

\* Packet::buffer(buf): the frame as a view of the scratch buffer
Packet_buffer(packet, buf) ==
    [i \in 1..(packet.end - packet.start) |-> buf[packet.start + i - 1]]

---------------------------------------------------------------------------
(* OpCode (command.rs lines 165-231): the opcodes the builders use.        *)

OpCode_Info == 48
OpCode_GenDig == 21
OpCode_Lock == 23
OpCode_Random == 27
OpCode_Read == 2
OpCode_Write == 18
OpCode_Sha == 71
OpCode_Aes == 81

\* Result<Packet, Error> of a builder method, with the state it leaves
Ok(built) == [ok |-> TRUE, err |-> "", st |-> built.st, packet |-> built.packet]
Err(st, kindOfError) == [ok |-> FALSE, err |-> kindOfError, st |-> st, packet |-> NoPacket]

---------------------------------------------------------------------------
(* The command builders (command.rs lines 277-595).  Each takes the state  *)
(* st = [b |-> builder fields, buf |-> scratch buffer] it is called on.    *)

GenDig_gendig(st, key_id) ==
    Ok(build(param2(opcode(st, OpCode_GenDig), key_id)))

Info_MODE_REVISION == 0

Info_revision(st) ==
    Ok(build(mode(opcode(st, OpCode_Info), Info_MODE_REVISION)))

Lock_zone_swapped(st, zone) ==
    IF zone = "Otp"
    THEN Err(st, BadParam)
    ELSE Ok(build(mode(opcode(st, OpCode_Lock),
                       IF zone = "Config" THEN BitOr(1, 128) ELSE 128)))

Lock_zone(st, zone) ==
    IF zone = "Otp"
    THEN Err(st, BadParam)
    ELSE Ok(build(mode(opcode(st, OpCode_Lock),
                       IF zone = "Config" THEN 128 ELSE BitOr(1, 128))))

Lock_slot(st, key_id) ==
    Ok(build(mode(opcode(st, OpCode_Lock),
                  BitOr(BitOr(Shl8(key_id, 2), 2), 128))))

Sha_MODE_SHA256_START == 0
Sha_MODE_SHA256_UPDATE == 1
Sha_MODE_SHA256_END == 2

Sha_start_as_update(st) ==
    Ok(build(mode(opcode(st, OpCode_Sha), Sha_MODE_SHA256_UPDATE)))

Sha_start(st) ==
    Ok(build(mode(opcode(st, OpCode_Sha), Sha_MODE_SHA256_START)))

Sha_update_inclusive(st, data) ==
    IF Len(data) > 64
    THEN Err(st, BadParam)
    ELSE Ok(build(pdu_data(mode(opcode(st, OpCode_Sha), Sha_MODE_SHA256_UPDATE), data)))

Sha_update(st, data) ==
    IF Len(data) >= 64
    THEN Err(st, BadParam)
    ELSE Ok(build(pdu_data(mode(opcode(st, OpCode_Sha), Sha_MODE_SHA256_UPDATE), data)))

Sha_end(st) ==
    Ok(build(mode(opcode(st, OpCode_Sha), Sha_MODE_SHA256_END)))

Aes_MODE_ENCRYPT == 0
Aes_MODE_DECRYPT == 1

Aes_encrypt_exact(st, slot, plaintext) ==
    IF ~is_private_key(slot) THEN Err(st, BadParam)
    ELSE IF Len(plaintext) # 16 THEN Err(st, InvalidSize)
    ELSE Ok(build(pdu_length(pdu_data(param2(mode(opcode(st, OpCode_Aes),
                  Aes_MODE_ENCRYPT), slot), plaintext), 16)))

Aes_encrypt(st, slot, plaintext) ==
    IF ~is_private_key(slot) THEN Err(st, BadParam)
    ELSE IF Len(plaintext) > 16 THEN Err(st, InvalidSize)
    ELSE Ok(build(pdu_length(pdu_data(param2(mode(opcode(st, OpCode_Aes),
                  Aes_MODE_ENCRYPT), slot), plaintext), 16)))

Aes_decrypt(st, slot, ciphertext) ==
    IF ~is_private_key(slot) THEN Err(st, BadParam)
    ELSE IF Len(ciphertext) # 16 THEN Err(st, InvalidSize)
    ELSE Ok(build(pdu_length(pdu_data(param2(mode(opcode(st, OpCode_Aes),
                  Aes_MODE_DECRYPT), slot), ciphertext), 16)))

Random_MODE_SEED_UPDATE == 0

Random_random(st) ==
    Ok(build(mode(opcode(st, OpCode_Random), Random_MODE_SEED_UPDATE)))

Read_slot(st, slot, block) ==
    LET a == Zone_get_slot_addr(slot, block)
    IN IF ~a.ok THEN Err(st, a.err)
       ELSE Ok(build(param2(mode(opcode(st, OpCode_Read),
                                 Zone_encode("Data", "Block")), a.addr)))

Read_read_eager(st, zone, size, block, offset) ==
    LET a == Zone_get_addr(zone, block, offset)
    IN IF ~a.ok THEN Err(opcode(st, OpCode_Read), a.err)
       ELSE Ok(build(param2(mode(opcode(st, OpCode_Read),
                                 Zone_encode(zone, size)), a.addr)))

Read_read(st, zone, size, block, offset) ==
    LET a == Zone_get_addr(zone, block, offset)
    IN IF ~a.ok THEN Err(st, a.err)
       ELSE Ok(build(param2(mode(opcode(st, OpCode_Read),
                                 Zone_encode(zone, size)), a.addr)))

\* data: &Block, the 16 bytes of a Block value
Write_slot(st, slot, block, data) ==
    LET a == Zone_get_slot_addr(slot, block)
    IN IF ~a.ok THEN Err(st, a.err)
       ELSE Ok(build(pdu_data(param2(mode(opcode(st, OpCode_Write),
                                          Zone_encode("Data", "Block")), a.addr), data)))

Write_write_block_only(st, zone, size, block, offset, data) ==
    LET a == Zone_get_addr(zone, block, offset)
    IN IF Size_len("Block") # Len(data) THEN Err(st, BadParam)
       ELSE IF ~a.ok THEN Err(st, a.err)
       ELSE Ok(build(pdu_data(param2(mode(opcode(st, OpCode_Write),
                                          Zone_encode(zone, size)), a.addr), data)))

Write_write(st, zone, size, block, offset, data) ==
    LET a == Zone_get_addr(zone, block, offset)
    IN IF Size_len(size) # Len(data) THEN Err(st, BadParam)
       ELSE IF ~a.ok THEN Err(st, a.err)
       ELSE Ok(build(pdu_data(param2(mode(opcode(st, OpCode_Write),
                                          Zone_encode(zone, size)), a.addr), data)))

---------------------------------------------------------------------------
(* The state machine: one command struct over one scratch buffer, and one  *)
(* action per builder method.                                              *)

Kinds == {"GenDig", "Info", "Lock", "Sha", "Aes", "Random", "Read", "Write"}

ScratchBuffer(f) == [i \in 0..(BufSize - 1) |-> f]

St == [b |-> builder, buf |-> buffer]

NoCall ==
    [size |-> "", slot |-> 0, zone |-> "", block |-> 0, offset |-> 0,
     ok |-> FALSE, err |-> "", op |-> "", data |-> <<>>, packet |-> NoPacket,
     preFresh |-> FALSE, preZero |-> FALSE]

\* seed of the payloads handed to the builders
CmdSeed == 1
\* arguments after which further calls on the same struct are explored
PriorLens == {3, 16}
PriorSlot == 1

\* a call of method op with arguments args and outcome r; more: whether further
\* calls on the same struct are explored after it
Call(op, r, args, more) ==
    /\ budget > 0
    /\ builder' = r.st.b
    /\ buffer' = r.st.buf
    /\ budget' = IF more THEN budget - 1 ELSE 0
    /\ last' = [args EXCEPT !.op = op, !.ok = r.ok, !.err = r.err, !.packet = r.packet,
                            !.preFresh = (builder = PacketBuilder_new),
                            !.preZero = (buffer = ScratchBuffer(0))]
    /\ UNCHANGED <<kind, fill, resp>>

GenDigGendig ==
    /\ kind = "GenDig"
    /\ \E key_id \in Slots :
         Call("GenDig::gendig", GenDig_gendig(St, key_id),
              [NoCall EXCEPT !.slot = key_id], key_id = PriorSlot)

InfoRevision ==
    /\ kind = "Info"
    /\ Call("Info::revision", Info_revision(St), NoCall, TRUE)

LockZone ==
    /\ kind = "Lock"
    /\ \E zone \in Zones :
         Call("Lock::zone", Lock_zone(St, zone), [NoCall EXCEPT !.zone = zone],
              zone = "Config")

LockSlot ==
    /\ kind = "Lock"
    /\ \E key_id \in Slots :
         Call("Lock::slot", Lock_slot(St, key_id), [NoCall EXCEPT !.slot = key_id],
              key_id = PriorSlot)

ShaStart ==
    /\ kind = "Sha"
    /\ Call("Sha::start", Sha_start(St), NoCall, TRUE)

ShaUpdate ==
    /\ kind = "Sha"
    /\ \E n \in 0..MaxDataLen :
         Call("Sha::update", Sha_update(St, Data(n, CmdSeed)),
              [NoCall EXCEPT !.data = Data(n, CmdSeed)], n \in PriorLens)

ShaEnd ==
    /\ kind = "Sha"
    /\ Call("Sha::end", Sha_end(St), NoCall, TRUE)

AesEncrypt ==
    /\ kind = "Aes"
    /\ \E slot \in Slots, n \in 0..MaxAesLen :
         Call("Aes::encrypt", Aes_encrypt(St, slot, Data(n, CmdSeed)),
              [NoCall EXCEPT !.slot = slot, !.data = Data(n, CmdSeed)],
              slot = PriorSlot /\ n \in PriorLens)

AesDecrypt ==
    /\ kind = "Aes"
    /\ \E slot \in Slots, n \in 0..MaxAesLen :
         Call("Aes::decrypt", Aes_decrypt(St, slot, Data(n, CmdSeed)),
              [NoCall EXCEPT !.slot = slot, !.data = Data(n, CmdSeed)],
              slot = PriorSlot /\ n \in PriorLens)

RandomRandom ==
    /\ kind = "Random"
    /\ Call("Random::random", Random_random(St), NoCall, TRUE)

ReadSlot ==
    /\ kind = "Read"
    /\ \E slot \in Slots, block \in 0..MaxBlockArg :
         Call("Read::slot", Read_slot(St, slot, block),
              [NoCall EXCEPT !.slot = slot, !.block = block],
              slot = PriorSlot /\ block = 0)

ReadRead ==
    /\ kind = "Read"
    /\ \E zone \in Zones, size \in Sizes, block \in 0..MaxBlockArg, offset \in ArgOffsets :
         Call("Read::read", Read_read(St, zone, size, block, offset),
              [NoCall EXCEPT !.zone = zone, !.size = size, !.block = block,
                             !.offset = offset],
              zone = "Config" /\ size = "Word" /\ block = 0 /\ offset = 0)

WriteSlot ==
    /\ kind = "Write"
    /\ \E slot \in Slots, block \in 0..MaxBlockArg :
         Call("Write::slot", Write_slot(St, slot, block, Data(BlockValueLen, CmdSeed)),
              [NoCall EXCEPT !.slot = slot, !.block = block,
                             !.data = Data(BlockValueLen, CmdSeed)],
              slot = PriorSlot /\ block = 0)

WriteWrite ==
    /\ kind = "Write"
    /\ \E zone \in Zones, size \in Sizes, block \in 0..MaxBlockArg, offset \in ArgOffsets,
          n \in 0..MaxWriteLen :
         Call("Write::write", Write_write(St, zone, size, block, offset, Data(n, CmdSeed)),
              [NoCall EXCEPT !.zone = zone, !.size = size, !.block = block,
                             !.offset = offset, !.data = Data(n, CmdSeed)],
              zone = "Config" /\ block = 0 /\ offset = 0 /\ n = Size_len(size))

Init ==
    /\ kind \in Kinds
    /\ fill \in Fills
    /\ builder = PacketBuilder_new
    /\ buffer = ScratchBuffer(fill)
    /\ budget = MaxCalls
    /\ last = NoCall
    /\ resp = NoResp

Next ==
    \/ GenDigGendig
    \/ InfoRevision
    \/ LockZone
    \/ LockSlot
    \/ ShaStart
    \/ ShaUpdate
    \/ ShaEnd
    \/ AesEncrypt
    \/ AesDecrypt
    \/ RandomRandom
    \/ ReadSlot
    \/ ReadRead
    \/ WriteSlot
    \/ WriteWrite

Spec == Init /\ [][Next]_vars

---------------------------------------------------------------------------
(* The response conversions applied to response slices of every length.    *)

WordTryFrom ==
    \E n \in 0..MaxDataLen, s \in Seeds :
        /\ resp' = Word_try_from(Data(n, s))
        /\ UNCHANGED <<kind, builder, buffer, budget, fill, last>>

BlockTryFrom ==
    \E n \in 0..MaxDataLen, s \in Seeds :
        /\ resp' = Block_try_from(Data(n, s))
        /\ UNCHANGED <<kind, builder, buffer, budget, fill, last>>

SerialTryFrom ==
    \E n \in 0..MaxDataLen, s \in Seeds :
        /\ resp' = Serial_try_from(Data(n, s))
        /\ UNCHANGED <<kind, builder, buffer, budget, fill, last>>

SignatureFromBytes ==
    \E n \in 0..MaxDataLen, s \in Seeds :
        /\ resp' = Signature_from_bytes(Data(n, s))
        /\ UNCHANGED <<kind, builder, buffer, budget, fill, last>>

DigestTryFrom ==
    \E n \in 0..MaxDataLen, s \in Seeds :
        /\ resp' = Digest_try_from(Data(n, s))
        /\ UNCHANGED <<kind, builder, buffer, budget, fill, last>>

InitResp ==
    /\ kind = "Info"
    /\ fill = 0
    /\ builder = PacketBuilder_new
    /\ buffer = ScratchBuffer(0)
    /\ budget = 0
    /\ last = NoCall
    /\ resp = NoResp

NextResp ==
    \/ WordTryFrom
    \/ BlockTryFrom
    \/ SerialTryFrom
    \/ SignatureFromBytes
    \/ DigestTryFrom

SpecResp == InitResp /\ [][NextResp]_vars

---------------------------------------------------------------------------
(* Properties.                                                             *)

\* the n payload bytes of the frame in the scratch buffer
FramePayload(n) == [i \in 1..n |-> buffer[PDU_OFFSET + i - 1]]
\* the 16-bit little-endian param2 field of the frame in the scratch buffer
FrameParam2 == buffer[4] + 256 * buffer[5]
\* the source length the documentation requires of each fixed-length type
RequiredLen(t) ==
    CASE t = "Word" -> 4 [] t = "Block" -> 32 [] t = "Digest" -> 32
      [] t = "Signature" -> 64 [] t = "Serial" -> 32

\* C1: for Word, Block, Digest and Signature a slice of the required length
\* (4, 32, 32, 64) converts successfully and as_ref returns the input bytes; for
\* these and for Serial any other length yields an error; no slice makes a
\* conversion panic.
C1_RoundTrip ==
    resp.outcome # "none" =>
        /\ resp.outcome # "panic"
        /\ resp.ty # "Serial" /\ Len(resp.input) = RequiredLen(resp.ty) =>
               resp.outcome = "ok" /\ as_ref(resp) = resp.input
        /\ Len(resp.input) # RequiredLen(resp.ty) => resp.outcome = "err"

\* C2: Serial::try_from accepts a slice iff it is 32 bytes long; the 9-byte
\* serial is then bytes [0..4) followed by bytes [8..13) of the slice; any other
\* length yields an error (not a panic).
C2_SerialReassembly ==
    resp.ty = "Serial" =>
        IF Len(resp.input) = 32
        THEN /\ resp.outcome = "ok"
             /\ Len(as_ref(resp)) = 9
             /\ \A i \in 0..3 : as_ref(resp)[i + 1] = resp.input[i + 1]
             /\ \A i \in 0..4 : as_ref(resp)[4 + i + 1] = resp.input[8 + i + 1]
        ELSE resp.outcome = "err"

C2_Witness ==
    /\ resp.ty = "Serial"
    /\ resp.outcome = "ok"
    /\ Len(resp.input) = 32
    /\ as_ref(resp)[5] = resp.input[9]
    /\ as_ref(resp)[5] # resp.input[5]

C5_LockZone ==
    last.op = "Lock::zone" =>
        IF last.zone = "Otp"
        THEN ~last.ok /\ last.err = BadParam /\ last.packet = NoPacket
        ELSE /\ last.ok
             /\ buffer[2] = 23
             /\ buffer[3] = (IF last.zone = "Config" THEN 128 ELSE 129)

C5_Witness ==
    /\ last.op = "Lock::zone"
    /\ last.zone = "Data"
    /\ last.ok
    /\ buffer[3] = 129

\* C6: Write::write fails without a frame whenever len(data) # size.len(),
\* whatever zone, block and offset are; when the lengths match and the address is
\* legal the frame has opcode 0x12, mode zone.encode(size), param2
\* zone.get_addr(block, offset) and the data as payload.
C6_WriteWrite ==
    last.op = "Write::write" =>
        LET a == Zone_get_addr(last.zone, last.block, last.offset)
        IN /\ Len(last.data) # Size_len(last.size) => ~last.ok /\ last.packet = NoPacket
           /\ Len(last.data) = Size_len(last.size) /\ a.ok =>
                 /\ last.ok
                 /\ buffer[2] = 18
                 /\ buffer[3] = Zone_encode(last.zone, last.size)
                 /\ FrameParam2 = a.addr
                 /\ buffer[1] = 7 + Len(last.data)
                 /\ FramePayload(Len(last.data)) = last.data

C6_Witness ==
    /\ last.op = "Write::write"
    /\ last.ok
    /\ last.size = "Word"
    /\ last.zone = "Otp"
    /\ last.block = 1
    /\ last.offset = 7
    /\ FramePayload(4) = last.data

\* C7: every failure caused by a payload or response slice of the wrong length
\* (Write::write, Sha::update, Aes::encrypt/decrypt, Word/Block/Digest/Serial
\* conversion) is reported as InvalidSize; BadParam is reported for the
\* structurally invalid arguments (Otp as lock target, a slot that is not a
\* private-key slot for Aes).
C7_ErrorTaxonomy ==
    /\ last.op = "Write::write" /\ Len(last.data) # Size_len(last.size) =>
           ~last.ok /\ last.err = InvalidSize
    /\ last.op = "Sha::update" /\ Len(last.data) >= 64 =>
           ~last.ok /\ last.err = InvalidSize
    /\ last.op = "Aes::encrypt" /\ is_private_key(last.slot) /\ Len(last.data) > 16 =>
           ~last.ok /\ last.err = InvalidSize
    /\ last.op = "Aes::decrypt" /\ is_private_key(last.slot) /\ Len(last.data) # 16 =>
           ~last.ok /\ last.err = InvalidSize
    /\ last.op = "Lock::zone" /\ last.zone = "Otp" =>
           ~last.ok /\ last.err = BadParam
    /\ last.op \in {"Aes::encrypt", "Aes::decrypt"} /\ ~is_private_key(last.slot) =>
           ~last.ok /\ last.err = BadParam
    /\ resp.ty \in {"Word", "Block", "Digest", "Serial"}
         /\ Len(resp.input) # RequiredLen(resp.ty) =>
           resp.outcome = "err" /\ resp.err = InvalidSize

\* C8: whenever a command-builder method returns an error, no framer setter has
\* been invoked: the builder's fields and the scratch buffer are exactly as
\* before the call and no Packet exists.
C8_NoPartialFrame ==
    [][~last'.ok => (builder' = builder /\ buffer' = buffer /\ last'.packet = NoPacket)]_vars

C8_Witness ==
    /\ last.op = "Write::write"
    /\ ~last.ok
    /\ builder.opcode = OpCode_Write
    /\ builder.pdu_length = 32
    /\ buffer[1] = 7 + 32

\* C9: a command without payload built on a fresh builder over an all-zero
\* scratch buffer yields a frame whose view has 0x07 at index 1, the opcode at
\* index 2, the operation's mode at index 3 and [0x00, 0x00] at indices 4..6.
C9_NoPayloadFrame ==
    /\ last.op \in {"Sha::start", "Sha::end", "Info::revision", "Lock::zone",
                    "Lock::slot", "Random::random"}
    /\ last.ok
    /\ last.preFresh
    /\ last.preZero
    => LET packet == Packet_buffer(last.packet, buffer)
       IN /\ Len(packet) = 8
          /\ packet[1 + 1] = 7
          /\ packet[2 + 1] = (CASE last.op \in {"Sha::start", "Sha::end"} -> 71
                                [] last.op = "Info::revision" -> 48
                                [] last.op \in {"Lock::zone", "Lock::slot"} -> 23
                                [] last.op = "Random::random" -> 27)
          /\ packet[3 + 1] = (CASE last.op = "Sha::start" -> 0
                                [] last.op = "Sha::end" -> 2
                                [] last.op = "Info::revision" -> 0
                                [] last.op = "Lock::zone" ->
                                     (IF last.zone = "Config" THEN 128 ELSE 129)
                                [] last.op = "Lock::slot" -> 130 + 4 * last.slot
                                [] last.op = "Random::random" -> 0)
          /\ packet[4 + 1] = 0
          /\ packet[5 + 1] = 0

C9_Witness ==
    /\ last.op = "Sha::start"
    /\ last.ok
    /\ last.preFresh
    /\ last.preZero
    /\ Packet_buffer(last.packet, buffer)[2] = 7
    /\ Packet_buffer(last.packet, buffer)[3] = 71

\* the outcome of the last Sha call had it been made on a fresh builder over the
\* scratch buffer as it was at construction
ShaOnFresh ==
    LET st0 == [b |-> PacketBuilder_new, buf |-> ScratchBuffer(fill)]
    IN CASE last.op = "Sha::start" -> Sha_start(st0)
         [] last.op = "Sha::update" -> Sha_update(st0, last.data)
         [] last.op = "Sha::end" -> Sha_end(st0)

\* C10: in any sequence of start, update and end calls on one Sha builder, a
\* call fails only if it is an update of 64 bytes or more, and the frame of a
\* successful call is the frame the same call yields on a fresh builder: a start
\* or end frame after an update carries no payload and the length 7.
C10_ShaIndependent ==
    last.op \in {"Sha::start", "Sha::update", "Sha::end"} =>
        /\ last.ok = ~(last.op = "Sha::update" /\ Len(last.data) >= 64)
        /\ last.ok =>
               Packet_buffer(last.packet, buffer)
                   = Packet_buffer(ShaOnFresh.packet, ShaOnFresh.st.buf)
        /\ last.ok /\ last.op # "Sha::update" => buffer[1] = 7

====
